---- MODULE Spec2Model ----
(***************************************************************************)
(* A model of the line search engine of server/rust-search-engine:         *)
(* the cache of eligible documents (SearchEngine::refresh_file_cache), the *)
(* query executor (search, search_in_file), the scorer (calculate_score),  *)
(* the maintenance tasks, document ingestion and the two reporters.        *)
(*                                                                         *)
(* Strings are sequences of one-character strings, so that lowercasing,    *)
(* substring search, extension extraction and line splitting are computed  *)
(* the way the library calls of the source compute them.                   *)
(***************************************************************************)
EXTENDS Integers, Sequences, FiniteSets, TLC

VARIABLES
    root,          \* the root directory exists
    fs,            \* what each path of the universe holds on storage
    cached_files,  \* SearchEngine.cached_files
    last_scanned,  \* SearchEngine.last_scanned, on a clock that ticks per refresh
    result,        \* the value the engine operation that just completed returned
    pre,           \* the state that operation started in
    text,          \* a line handed to the scorer
    query,         \* a query handed to the scorer
    score          \* the score the scorer returned for them

vars == <<root, fs, cached_files, last_scanned, result, pre, text, query, score>>

engineVars == <<root, fs, cached_files, last_scanned, result, pre>>
scoreVars == <<text, query, score>>

(***************************************************************************)
(* Bounds of the model.                                                    *)
(***************************************************************************)
\* largest value of last_scanned: the number of cache refreshes of one run
MaxScans == 3
\* largest limit a search is called with
MaxLimit == 3
\* largest offset a search is called with
MaxOffset == 2
\* longest line handed to the scorer in the scorer's own specification
MaxText == 4
\* longest query handed to the scorer in the scorer's own specification
MaxQuery == 2

Min(a, b) == IF a < b THEN a ELSE b
Max(a, b) == IF a > b THEN a ELSE b

(***************************************************************************)
(* Characters and strings.                                                 *)
(***************************************************************************)
\* str::to_lowercase on the characters of the model
LowerChar(c) ==
    CASE c = "A" -> "a"
      [] c = "B" -> "b"
      [] c = "T" -> "t"
      [] c = "X" -> "x"
      [] c = "E9" -> "e9"
      [] OTHER -> c

\* "E9"/"e9" stand for U+00C9/U+00E9, which UTF-8 encodes in two bytes
ByteWidth(c) == IF c \in {"E9", "e9"} THEN 2 ELSE 1

\* \w of the regex crate: letters (digits and '_' are not in the alphabet)
IsWordChar(c) == c \in {"a", "b", "c", "d", "e", "i", "l", "m", "n", "p", "t", "x",
                        "y", "z", "e9", "A", "B", "T", "X", "E9"}

to_lowercase(s) == [i \in 1..Len(s) |-> LowerChar(s[i])]

RECURSIVE ByteLen(_)
\* str::len: the length in bytes
ByteLen(s) == IF s = <<>> THEN 0 ELSE ByteWidth(Head(s)) + ByteLen(Tail(s))

\* s occurs in t at (1-based) position i
OccursAt(t, s, i) == /\ i >= 1
                     /\ i + Len(s) - 1 <= Len(t)
                     /\ SubSeq(t, i, i + Len(s) - 1) = s

\* str::contains
contains(t, s) == \E i \in 1..(Len(t) + 1) : OccursAt(t, s, i)

RECURSIVE MatchesFrom(_, _, _)
\* str::matches(..).count(): the left-to-right scan, each match resuming after
\* the previous one; the empty pattern matches at every character boundary
MatchesFrom(t, s, i) ==
    IF s = <<>> THEN Len(t) + 2 - i
    ELSE IF i + Len(s) - 1 > Len(t) THEN 0
    ELSE IF OccursAt(t, s, i) THEN 1 + MatchesFrom(t, s, i + Len(s))
    ELSE MatchesFrom(t, s, i + 1)

matches_count(t, s) == MatchesFrom(t, s, 1)

\* \b of the regex crate between t[p] and t[p+1] (p = 0 is the start of t)
WordBoundary(t, p) ==
    LET before == p >= 1 /\ p <= Len(t) /\ IsWordChar(t[p])
        after == p + 1 >= 1 /\ p + 1 <= Len(t) /\ IsWordChar(t[p + 1])
    IN before # after

\* Regex::new("\\b" + escape(q) + "\\b").is_match(t)
is_match_word(t, q) ==
    \E i \in 1..(Len(t) + 1) :
        /\ OccursAt(t, q, i)
        /\ WordBoundary(t, i - 1)
        /\ WordBoundary(t, i + Len(q) - 1)

\* a faulty scorer, told apart by ScoreIsSumOfThreeTerms: the short-query boost
\* is given only when the word boost is not
calculate_score_exclusive(t, q) ==
    LET occurrences == matches_count(t, q)
        base == occurrences * 10
        word == IF ByteLen(q) >= 2 /\ is_match_word(t, q) THEN 5 ELSE 0
        short == IF word = 0 /\ ByteLen(q) <= 4 THEN 2 ELSE 0
    IN base + word + short

calculate_score(t, q) ==
    LET occurrences == matches_count(t, q)
        base == occurrences * 10
        word == IF ByteLen(q) >= 2 /\ is_match_word(t, q) THEN 5 ELSE 0
        short == IF ByteLen(q) <= 4 THEN 2 ELSE 0
    IN base + word + short

(***************************************************************************)
(* The storage under the root path.  A path is a directory (relative to    *)
(* the root) and a file name; Universe lists the entries the model lets    *)
(* exist, in the order a directory walk yields them.                       *)
(***************************************************************************)
Str_a_txt == <<"a", ".", "t", "x", "t">>
Str_B_TXT == <<"B", ".", "T", "X", "T">>
Str_c_txt == <<"c", ".", "t", "x", "t">>
Str_d_md == <<"d", ".", "m", "d">>
Str_dot_txt == <<".", "t", "x", "t">>
Str_e_txt == <<"e", ".", "t", "x", "t">>
Str_sub == <<"s", "u", "b">>
Str_txt == <<"t", "x", "t">>

Root == <<>>
P_a == [dir |-> Root, name |-> Str_a_txt]
P_B == [dir |-> Root, name |-> Str_B_TXT]
P_c == [dir |-> <<Str_sub>>, name |-> Str_c_txt]
P_d == [dir |-> <<Str_sub>>, name |-> Str_d_md]
P_hidden == [dir |-> Root, name |-> Str_dot_txt]
P_e == [dir |-> Root, name |-> Str_e_txt]
\* a directory whose own name ends in .txt
P_dir == [dir |-> Root, name |-> <<"m", ".", "t", "x", "t">>]

\* the order in which WalkDir yields the entries (the directory's own order,
\* a subdirectory's entries right after it): not sorted by name
WalkOrder == <<P_e, P_B, P_c, P_d, P_dir, P_a, P_hidden>>

Universe == {WalkOrder[i] : i \in 1..Len(WalkOrder)}

\* what a path holds: nothing, a directory, or a file of some bytes that are
\* valid UTF-8 (a text) or not
Absent == [kind |-> "absent", utf8 |-> FALSE, data |-> <<>>]
IsDir == [kind |-> "dir", utf8 |-> FALSE, data |-> <<>>]
File(t) == [kind |-> "file", utf8 |-> TRUE, data |-> t]
Binary == [kind |-> "file", utf8 |-> FALSE, data |-> <<"\\xff">>]

Text_a == <<"a", "b", "\n", "x", "y", "z", "\n", "a", "b", " ", "a", "b">>
Text_a2 == <<"A", "b", "\n", "\n", "c", "a", "b", "\r", "\n">>
Text_c == <<"A", "B", " ", "a", "b", "\r", "\n", "c", "a", "b", "\n">>
Text_e == <<"a", "b">>
Text_other == <<"a", "b", "\n">>

\* what a file of the universe holds when the environment writes it
DefaultContent(p) ==
    CASE p = P_a -> {File(Text_a)}
      [] p = P_c -> {File(Text_c)}
      [] p = P_e -> {File(Text_e), Binary}
      [] OTHER -> {File(Text_other)}

\* std::path::Path::extension: the part of the file name after its last dot;
\* none when there is no dot, or when the only dot starts the name
extension(name) ==
    LET dots == {i \in 1..Len(name) : name[i] = "."}
    IN IF dots = {} THEN <<"none">>
       ELSE LET last == CHOOSE i \in dots : \A j \in dots : j <= i
            IN IF last = 1 THEN <<"none">>
               ELSE <<"some", SubSeq(name, last + 1, Len(name))>>

\* Path::exists
exists(f, p) == p \in Universe /\ f[p] # Absent

\* DirEntry::file_type().is_file()
is_file(f, p) == exists(f, p) /\ f[p] # IsDir

\* a faulty filter, told apart by CacheIsExactlyTheTxtFiles: the extension is
\* compared ignoring case
ext_is_txt_ignoring_case(p) ==
    LET e == extension(p.name)
    IN e[1] = "some" /\ to_lowercase(e[2]) = Str_txt

\* the filter of refresh_file_cache: ext == "txt"
ext_is_txt(p) == extension(p.name) = <<"some", Str_txt>>

RECURSIVE WalkFrom(_, _)
\* the entries WalkDir yields that pass the three filters, in walk order
WalkFrom(f, i) ==
    IF i > Len(WalkOrder) THEN <<>>
    ELSE LET p == WalkOrder[i]
         IN IF is_file(f, p) /\ ext_is_txt(p)
            THEN <<p>> \o WalkFrom(f, i + 1)
            ELSE WalkFrom(f, i + 1)

\* a faulty refresh, told apart by CleanupTwiceKeepsCache: the cache is not
\* cleared before the walk
refresh_without_clear(r, f, cache) == IF r THEN cache \o WalkFrom(f, 1) ELSE cache

\* refresh_file_cache: clear, then, when the root is a directory, push every
\* entry of the walk that passes the filters
refresh_file_cache(r, f, cache) == IF r THEN WalkFrom(f, 1) ELSE <<>>

(***************************************************************************)
(* The query executor.                                                     *)
(***************************************************************************)
\* index of the first "\n" of s, or 0
FirstNewline(s) ==
    IF \E i \in 1..Len(s) : s[i] = "\n"
    THEN CHOOSE i \in 1..Len(s) : s[i] = "\n" /\ \A j \in 1..(i - 1) : s[j] # "\n"
    ELSE 0

\* a line that ended in "\n" also loses one "\r" before it
StripCr(l) == IF l # <<>> /\ l[Len(l)] = "\r" THEN SubSeq(l, 1, Len(l) - 1) ELSE l

RECURSIVE lines(_)
\* str::lines: split at "\n" or "\r\n"; the final line ending is optional
lines(s) ==
    IF s = <<>> THEN <<>>
    ELSE LET n == FirstNewline(s)
         IN IF n = 0 THEN <<s>>
            ELSE <<StripCr(SubSeq(s, 1, n - 1))>> \o lines(SubSeq(s, n + 1, Len(s)))

\* tokio::fs::read_to_string succeeds: a regular file holding valid UTF-8
readable(f, p) == is_file(f, p) /\ f[p].utf8

\* the hit search_in_file pushes for line number n (0-based) of file p
MakeHit(p, n, line, q) ==
    [id |-> <<>>,
     title |-> <<p.name, n + 1>>,
     content |-> line,
     score |-> calculate_score(to_lowercase(line), q),
     path |-> p,
     line_number |-> n]

RECURSIVE ScanLines(_, _, _, _)
\* the loop of search_in_file over content.lines().enumerate(), from line n on
ScanLines(p, ls, n, q) ==
    IF n >= Len(ls) THEN <<>>
    ELSE LET line == ls[n + 1]
             rest == ScanLines(p, ls, n + 1, q)
         IN IF contains(to_lowercase(line), q)
            THEN <<MakeHit(p, n, line, q)>> \o rest
            ELSE rest

\* a faulty scan, told apart by TotalCountsEveryMatch: it returns at the first
\* matching line of the file
search_in_file_first(f, p, q) ==
    IF ~readable(f, p) THEN [ok |-> FALSE, hits |-> <<>>]
    ELSE LET hits == ScanLines(p, lines(f[p].data), 0, q)
         IN [ok |-> TRUE, hits |-> IF hits = <<>> THEN <<>> ELSE <<hits[1]>>]

\* search_in_file: Err when the file cannot be read, else the hits of its lines
search_in_file(f, p, q) ==
    IF ~readable(f, p) THEN [ok |-> FALSE, hits |-> <<>>]
    ELSE [ok |-> TRUE, hits |-> ScanLines(p, lines(f[p].data), 0, q)]

\* result.id = format!("{}-{}", file_idx, result.line_number)
SetId(h, file_idx) == [h EXCEPT !.id = <<file_idx, h.line_number>>]

RECURSIVE CollectFrom(_, _, _, _)
\* the loop of search over cached_files.iter().enumerate(), from file_idx on:
\* the hits of a file that cannot be read are skipped
CollectFrom(f, cache, file_idx, q) ==
    IF file_idx >= Len(cache) THEN <<>>
    ELSE LET r == search_in_file(f, cache[file_idx + 1], q)
             mine == IF r.ok THEN [i \in 1..Len(r.hits) |-> SetId(r.hits[i], file_idx)]
                     ELSE <<>>
         IN mine \o CollectFrom(f, cache, file_idx + 1, q)

\* a faulty insertion, told apart by ResultsOrdered: a hit goes before the hits
\* of its own score
InsertBeforeEqual(sorted, h) ==
    LET k == Cardinality({i \in 1..Len(sorted) : sorted[i].score > h.score})
    IN SubSeq(sorted, 1, k) \o <<h>> \o SubSeq(sorted, k + 1, Len(sorted))

\* where a stable descending sort puts h among the sorted hits before it:
\* after every hit whose score is not lower
InsertByScore(sorted, h) ==
    LET k == Cardinality({i \in 1..Len(sorted) : sorted[i].score >= h.score})
    IN SubSeq(sorted, 1, k) \o <<h>> \o SubSeq(sorted, k + 1, Len(sorted))

RECURSIVE sort_by_score(_)
\* results.sort_by(|a, b| b.score.partial_cmp(&a.score)...): stable, descending
sort_by_score(hs) ==
    IF hs = <<>> THEN <<>>
    ELSE InsertByScore(sort_by_score(SubSeq(hs, 1, Len(hs) - 1)), hs[Len(hs)])

\* a faulty window, told apart by ResultsAreTheWindow: take(limit) before
\* skip(offset)
take_then_skip(hs, limit, offset) ==
    LET taken == SubSeq(hs, 1, Min(Len(hs), limit))
    IN IF offset >= Len(taken) THEN <<>> ELSE SubSeq(taken, offset + 1, Len(taken))

\* .into_iter().skip(offset).take(limit).collect()
paginate(hs, limit, offset) ==
    IF offset >= Len(hs) THEN <<>>
    ELSE SubSeq(hs, offset + 1, Min(Len(hs), offset + limit))

\* the query echoed in the response: query.to_string()
echo_query(q) == q

\* a faulty search, told apart by TotalExactBelowThreshold: the query is
\* matched as given, not lowercased
search_query_as_given(f, cache, q, limit, offset) ==
    LET results == sort_by_score(CollectFrom(f, cache, 0, q))
    IN [op |-> "search",
        query |-> echo_query(q),
        results |-> paginate(results, limit, offset),
        total |-> Len(results),
        limit |-> limit,
        offset |-> offset]

search(f, cache, q, limit, offset) ==
    LET query_lower == to_lowercase(q)
        results == sort_by_score(CollectFrom(f, cache, 0, query_lower))
    IN [op |-> "search",
        query |-> echo_query(q),
        results |-> paginate(results, limit, offset),
        total |-> Len(results),
        limit |-> limit,
        offset |-> offset]

(***************************************************************************)
(* The engine's operations.                                                *)
(***************************************************************************)
NoResult == [op |-> "none"]

\* Ok(engine) of SearchEngine::new
NewResult == [op |-> "new"]

NoArgs == [query |-> <<>>, limit |-> 0, offset |-> 0]

\* the snapshot an operation leaves of the state it started in and of the
\* arguments it was called with
Snapshot(args) == [args |-> args, root |-> root, fs |-> fs, cached_files |-> cached_files,
             last_scanned |-> last_scanned,
             task |-> IF result.op = "maintenance" THEN result.task ELSE "",
             success |-> result.op = "maintenance" /\ result.success]

NoPre == [args |-> NoArgs, root |-> TRUE, fs |-> [p \in Universe |-> Absent], cached_files |-> <<>>,
          last_scanned |-> 0, task |-> "", success |-> FALSE]

Search(q, limit, offset) ==
    /\ result' = search(fs, cached_files, q, limit, offset)
    /\ pre' = Snapshot([query |-> q, limit |-> limit, offset |-> offset])
    /\ UNCHANGED <<root, fs, cached_files, last_scanned>>

\* metadata(file_path).len() summed over the cache; a failed metadata call adds 0
RECURSIVE TotalSize(_, _, _)
TotalSize(f, cache, i) ==
    IF i > Len(cache) THEN 0
    ELSE (IF exists(f, cache[i]) THEN ByteLen(f[cache[i]].data) ELSE 0)
         + TotalSize(f, cache, i + 1)

\* a faulty get_stats, told apart by ReadersLeaveCache: it refreshes the cache
\* to report fresh numbers
get_stats_refreshing ==
    /\ last_scanned < MaxScans
    /\ cached_files' = refresh_file_cache(root, fs, cached_files)
    /\ last_scanned' = last_scanned + 1
    /\ result' = [op |-> "stats",
                  total_documents |-> Len(cached_files'),
                  index_size_bytes |-> TotalSize(fs, cached_files', 1),
                  last_updated |-> last_scanned']
    /\ pre' = Snapshot(NoArgs)
    /\ UNCHANGED <<root, fs>>

get_stats ==
    /\ result' = [op |-> "stats",
                  total_documents |-> Len(cached_files),
                  index_size_bytes |-> TotalSize(fs, cached_files, 1),
                  last_updated |-> last_scanned]
    /\ pre' = Snapshot(NoArgs)
    /\ UNCHANGED <<root, fs, cached_files, last_scanned>>

get_status ==
    /\ result' = [op |-> "status",
                  index_exists |-> root,
                  index_healthy |-> root,
                  total_documents |-> Len(cached_files),
                  index_size_bytes |-> TotalSize(fs, cached_files, 1),
                  last_updated |-> last_scanned]
    /\ pre' = Snapshot(NoArgs)
    /\ UNCHANGED <<root, fs, cached_files, last_scanned>>

\* the task names run_maintenance is called with
Tasks == {"cleanup", "clear-all", "update-stats", "Cleanup", "vacuum"}

MaintenanceResult(task, success, message) ==
    [op |-> "maintenance", err |-> FALSE, task |-> task, success |-> success,
     message |-> message]

\* arms "cleanup" and "update-stats" of run_maintenance
MaintRefresh(task) ==
    /\ task \in {"cleanup", "update-stats"}
    /\ last_scanned < MaxScans
    /\ cached_files' = refresh_file_cache(root, fs, cached_files)
    /\ last_scanned' = last_scanned + 1
    /\ result' = MaintenanceResult(task, TRUE,
                     [fmt |-> "File cache refreshed successfully"])
    /\ pre' = Snapshot(NoArgs)
    /\ UNCHANGED <<root, fs>>

\* a faulty removal, told apart by ClearAllRemovesWhatItCan: every .txt file
\* under the root is removed, cached or not
RemovedWalk(f, cache, refused) ==
    {p \in Universe : is_file(f, p) /\ ext_is_txt(p) /\ p \notin refused}

\* the files of the snapshot that remove_file removes: those that exist, but for
\* the ones whose removal the storage refuses
Removed(f, cache, refused) ==
    {cache[i] : i \in 1..Len(cache)} \cap {p \in Universe : is_file(f, p) /\ p \notin refused}

\* arm "clear-all" of run_maintenance
MaintClearAll(task) ==
    /\ task = "clear-all"
    /\ last_scanned < MaxScans
    /\ \E refused \in SUBSET {p \in Universe : is_file(fs, p) /\ ext_is_txt(p)} :
          LET gone == Removed(fs, cached_files, refused)
              after == [p \in Universe |-> IF p \in gone THEN Absent ELSE fs[p]]
          IN /\ fs' = after
             /\ cached_files' = refresh_file_cache(root, after, cached_files)
             /\ result' = MaintenanceResult(task, TRUE,
                              [fmt |-> "Removed {} files from search directory",
                               files_removed |-> Cardinality(gone)])
    /\ last_scanned' = last_scanned + 1
    /\ pre' = Snapshot(NoArgs)
    /\ UNCHANGED root

\* a faulty arm `_`, told apart by UnknownTaskChangesNothing: it falls through
\* to the refresh of "cleanup"
MaintUnknownRefreshing(task) ==
    /\ task \notin {"cleanup", "clear-all", "update-stats"}
    /\ last_scanned < MaxScans
    /\ cached_files' = refresh_file_cache(root, fs, cached_files)
    /\ last_scanned' = last_scanned + 1
    /\ result' = MaintenanceResult(task, FALSE,
                     [fmt |-> "Unknown maintenance task: {}", task |-> task])
    /\ pre' = Snapshot(NoArgs)
    /\ UNCHANGED <<root, fs>>

\* arm `_` of run_maintenance
MaintUnknown(task) ==
    /\ task \notin {"cleanup", "clear-all", "update-stats"}
    /\ result' = MaintenanceResult(task, FALSE,
                     [fmt |-> "Unknown maintenance task: {}", task |-> task])
    /\ pre' = Snapshot(NoArgs)
    /\ UNCHANGED <<root, fs, cached_files, last_scanned>>

run_maintenance(task) ==
    \/ MaintRefresh(task)
    \/ MaintClearAll(task)
    \/ MaintUnknown(task)

\* the paths index_document is called with: a path of the universe, or a path
\* outside the root, given with what it holds
Outside(name, holds) == [inside |-> FALSE, path |-> [dir |-> <<"..">>, name |-> name],
                         holds |-> holds]
Inside(p) == [inside |-> TRUE, path |-> p, holds |-> fs[p]]

IndexInputs ==
    {Inside(P_a), Inside(P_B),
     Outside(Str_a_txt, File(Text_a)), Outside(Str_B_TXT, File(Text_other)),
     Outside(Str_e_txt, Absent), Outside(Str_sub, IsDir)}

IndexResult(success, message) == [op |-> "index", err |-> FALSE, success |-> success,
                                  message |-> message]

index_document(in) ==
    LET dest == [dir |-> Root, name |-> in.path.name]
    IN /\ pre' = Snapshot(NoArgs)
       /\ IF in.holds = Absent
          THEN \* the path does not exist
               /\ result' = IndexResult(FALSE, "File does not exist")
               /\ UNCHANGED <<root, fs, cached_files, last_scanned>>
          ELSE IF in.path # dest /\ (in.holds = IsDir \/ ~root \/ dest \notin Universe
                                      \/ fs[dest] = IsDir)
          THEN \* the copy fails and its error is returned: no refresh
               /\ result' = [op |-> "index", err |-> TRUE]
               /\ UNCHANGED <<root, fs, cached_files, last_scanned>>
          ELSE /\ last_scanned < MaxScans
               /\ fs' = IF in.path # dest THEN [fs EXCEPT ![dest] = in.holds] ELSE fs
               /\ cached_files' = refresh_file_cache(root, fs', cached_files)
               /\ last_scanned' = last_scanned + 1
               /\ result' = IndexResult(TRUE, "File added to search directory")
               /\ UNCHANGED root

(***************************************************************************)
(* The environment: other processes write and delete under the root.       *)
(* An operation's result and snapshot describe the operation that has just *)
(* completed, so a step of the environment forgets them.                   *)
(***************************************************************************)
Forget == result' = NoResult /\ pre' = NoPre

\* the paths other processes write and delete while the engine runs; the other
\* entries of the universe are there, or not, from the start
Written == {P_a, P_B, P_c, P_e}

WriteFile(p, c) ==
    /\ root
    /\ c \in DefaultContent(p)
    /\ fs[p] # c
    /\ fs' = [fs EXCEPT ![p] = c]
    /\ Forget
    /\ UNCHANGED <<root, cached_files, last_scanned>>

Delete(p) ==
    /\ fs[p] # Absent
    /\ fs' = [fs EXCEPT ![p] = Absent]
    /\ Forget
    /\ UNCHANGED <<root, cached_files, last_scanned>>

RemoveRoot ==
    /\ root
    /\ root' = FALSE
    /\ fs' = [p \in Universe |-> Absent]
    /\ Forget
    /\ UNCHANGED <<cached_files, last_scanned>>

CreateRoot ==
    /\ ~root
    /\ root' = TRUE
    /\ Forget
    /\ UNCHANGED <<fs, cached_files, last_scanned>>

(***************************************************************************)
(* The engine among other processes.                                       *)
(***************************************************************************)
\* the scorer's variables while the engine is looked at
NoScore == text = <<>> /\ query = <<>> /\ score = 0

\* the file systems SearchEngine::new may find
Populated == [p \in Universe |-> IF p = P_dir THEN IsDir
                                  ELSE CHOOSE c \in DefaultContent(p) : c.utf8]

InitialFileSystems ==
    {[p \in Universe |-> IF p \in here THEN Populated[p] ELSE Absent] :
        here \in {{}, Written, Universe \ Written, Universe}}

\* SearchEngine::new: the root exists or is created, then one refresh
Init ==
    /\ root = TRUE
    /\ fs \in InitialFileSystems
    /\ cached_files = refresh_file_cache(root, fs, <<>>)
    /\ last_scanned = 1
    /\ result = NewResult
    /\ pre = NoPre
    /\ NoScore

\* the queries the engine is searched with among other processes: "Ab"
Queries == {<<"A", "b">>}

Next ==
    \/ \E q \in Queries, limit \in {0, MaxLimit}, offset \in {0, MaxOffset} :
          Search(q, limit, offset) /\ UNCHANGED scoreVars
    \/ get_stats /\ UNCHANGED scoreVars
    \/ get_status /\ UNCHANGED scoreVars
    \/ \E task \in Tasks : run_maintenance(task) /\ UNCHANGED scoreVars
    \/ \E in \in IndexInputs : index_document(in) /\ UNCHANGED scoreVars
    \/ \E p \in Written, c \in {File(Text_a), File(Text_c), File(Text_e), File(Text_other), Binary} :
          WriteFile(p, c) /\ UNCHANGED scoreVars
    \/ \E p \in Written : Delete(p) /\ UNCHANGED scoreVars
    \/ RemoveRoot /\ UNCHANGED scoreVars
    \/ CreateRoot /\ UNCHANGED scoreVars

Spec == Init /\ [][Next]_vars

(***************************************************************************)
(* The query executor on its own: every search over the file systems and   *)
(* caches below, the cache being a refresh of an earlier file system.      *)
(***************************************************************************)
SearchFileSystems ==
    {[p \in Universe |-> CASE p = P_a -> a [] p = P_c -> c [] p = P_e -> e
                           [] p = P_B -> b [] OTHER -> Absent] :
        a \in {Absent, File(Text_a), File(Text_a2)},
        c \in {Absent, File(Text_c)},
        e \in {Absent, File(Text_e), Binary},
        b \in {Absent, File(Text_other)}}

\* the queries of the searches: "", "Ab", "b", "ab ab"
SearchQueries == {<<>>, <<"A", "b">>, <<"b">>, <<"a", "b", " ", "a", "b">>}

InitSearch ==
    /\ root = TRUE
    /\ fs \in SearchFileSystems
    /\ \E f0 \in SearchFileSystems : cached_files = refresh_file_cache(TRUE, f0, <<>>)
    /\ last_scanned = 1
    /\ result = NoResult
    /\ pre = NoPre
    /\ NoScore

NextSearch ==
    \E q \in SearchQueries, limit \in 0..MaxLimit, offset \in 0..MaxOffset :
        Search(q, limit, offset) /\ UNCHANGED scoreVars

SpecSearch == InitSearch /\ [][NextSearch]_vars

(***************************************************************************)
(* The scorer on its own: every lowercased line and query below, the query *)
(* occurring in the line as at the scorer's one call.                      *)
(***************************************************************************)
ScoreAlphabet == {"a", "b", " ", "e9"}

Strings(n) == UNION {[1..k -> ScoreAlphabet] : k \in 0..n}

Str_ab_ab == <<"a", "b", " ", "a", "b">>
Str_apple == <<"a", "p", "p", "l", "e">>
Str_banana_apple == <<"b", "a", "n", "a", "n", "a", " ", "a", "p", "p", "l", "e">>
Str_apple_pie == <<"a", "p", "p", "l", "e", " ", "p", "i", "e">>
Str_pineapple == <<"p", "i", "n", "e", "a", "p", "p", "l", "e">>
\* three characters, five bytes
Str_e9e9a == <<"e9", "e9", "a">>
Str_ae9e9a == <<"a", " ", "e9", "e9", "a">>

ScoreTexts == Strings(MaxText) \cup {Str_ab_ab, Str_apple, Str_banana_apple,
                                     Str_apple_pie, Str_pineapple, Str_ae9e9a}
ScoreQueries == Strings(MaxQuery) \cup {Str_ab_ab, Str_apple, Str_e9e9a}

NotScored == 0 - 1

InitScore ==
    /\ text \in ScoreTexts
    /\ query \in ScoreQueries
    /\ contains(text, query)
    /\ score = NotScored
    /\ root = TRUE
    /\ fs = [p \in Universe |-> Absent]
    /\ cached_files = <<>>
    /\ last_scanned = 1
    /\ result = NoResult
    /\ pre = NoPre

Score ==
    /\ score = NotScored
    /\ score' = calculate_score(text, query)
    /\ UNCHANGED <<text, query>>
    /\ UNCHANGED engineVars

SpecScore == InitScore /\ [][Score]_vars

(***************************************************************************)
(* Properties of the document cache (specification Spec).                  *)
(***************************************************************************)
Cached == {cached_files[i] : i \in 1..Len(cached_files)}

NoDuplicates == \A i, j \in 1..Len(cached_files) : i # j => cached_files[i] # cached_files[j]

Dot_txt == <<".", "t", "x", "t">>

\* the name is a non-empty stem followed by ".txt"
EndsInDotTxt(name) ==
    Len(name) > Len(Dot_txt) /\ SubSeq(name, Len(name) - 3, Len(name)) = Dot_txt

RegularFiles == {p \in Universe : fs[p].kind = "file"}

KnownTasks == {"cleanup", "update-stats", "clear-all"}

\* the operation that has just completed ended with a refresh of the cache
Refreshed ==
    \/ result.op = "new"
    \/ result.op = "maintenance" /\ result.task \in KnownTasks
    \/ result.op = "index" /\ ~result.err /\ result.success

WereCachedFiles ==
    {p \in Universe : pre.fs[p].kind = "file"
                      /\ \E i \in 1..Len(pre.cached_files) : pre.cached_files[i] = p}

UnknownTaskChangesNothing ==
    (result.op = "maintenance" /\ result.task \notin KnownTasks) =>
        /\ ~result.err
        /\ ~result.success
        /\ result.message = [fmt |-> "Unknown maintenance task: {}", task |-> result.task]
        /\ cached_files = pre.cached_files
        /\ last_scanned = pre.last_scanned
        /\ fs = pre.fs
        /\ root = pre.root

\* "Cleanup" (not the task "cleanup") was run on a cache that a refresh would
\* have changed
UnknownTaskOnStaleCache ==
    /\ result.op = "maintenance"
    /\ result.task = "Cleanup"
    /\ cached_files # <<>>
    /\ cached_files # refresh_file_cache(root, fs, cached_files)

Refreshers == {"cleanup", "update-stats"}

\* C9: when "cleanup" or "update-stats" runs right after "cleanup" or
\* "update-stats", nothing having touched the storage in between, both results
\* report success and the cached sequence is the same after the second run as
\* after the first.
CleanupTwiceKeepsCache ==
    (result.op = "maintenance" /\ result.task \in Refreshers /\ pre.task \in Refreshers) =>
        /\ result.success
        /\ pre.success
        /\ cached_files = pre.cached_files
        /\ fs = pre.fs

\* "update-stats" has run right after "cleanup" on a cache of three documents
CleanupThenUpdateStats ==
    /\ result.op = "maintenance"
    /\ result.task = "update-stats"
    /\ pre.task = "cleanup"
    /\ Len(cached_files) = 3

\* C10, as stated: every operation other than maintenance and the initial
\* refresh leaves the cached file list and last_scanned unchanged.
OnlyMaintenanceMutatesCache ==
    result.op \in {"search", "stats", "status", "index"} =>
        /\ cached_files = pre.cached_files
        /\ last_scanned = pre.last_scanned

\* C10, amended: search, stats and status, and an index_document that fails,
\* leave the cached file list and last_scanned (and the storage) unchanged;
\* an index_document that succeeds refreshes the cache like maintenance does.
ReadersLeaveCache ==
    /\ (result.op \in {"search", "stats", "status"}
        \/ (result.op = "index" /\ (result.err \/ ~result.success))) =>
            /\ cached_files = pre.cached_files
            /\ last_scanned = pre.last_scanned
            /\ fs = pre.fs
    /\ (result.op = "index" /\ ~result.err /\ result.success) =>
            /\ last_scanned = pre.last_scanned + 1
            /\ Cached = {p \in RegularFiles : EndsInDotTxt(p.name)}

\* stats were taken of a cache that a refresh would have changed, after an
\* earlier refresh
StatsOnStaleCache ==
    /\ result.op = "stats"
    /\ last_scanned >= 2
    /\ result.total_documents >= 1
    /\ cached_files # refresh_file_cache(root, fs, cached_files)

(***************************************************************************)
(* Properties of the query executor (specification SpecSearch).  A search  *)
(* changes neither the storage nor the cache, so fs and cached_files are   *)
(* those it ran on, and pre.args are the arguments it was given.           *)
(***************************************************************************)
\* the lines of the cached document number i (0-based); a document that cannot
\* be read has none
DocLines(i) ==
    LET p == cached_files[i + 1]
    IN IF fs[p].kind = "file" /\ fs[p].utf8 THEN lines(fs[p].data) ELSE <<>>

\* the hits there are to collect, each named by <<document index, line number>>
Matching(q) ==
    UNION {{<<i, n>> : n \in {m \in 0..(Len(DocLines(i)) - 1) :
                               contains(to_lowercase(DocLines(i)[m + 1]), to_lowercase(q))}} :
           i \in 0..(Len(cached_files) - 1)}

\* the early-stop threshold of a search for offset + limit = target
Threshold(target) == IF target > 10000 THEN target + 20000 ELSE target * 3

DiscoveredBefore(h, g) == h[1] < g[1] \/ (h[1] = g[1] /\ h[2] < g[2])

\* C3: the returned hits are in descending order of score, and hits of equal
\* score are in discovery order (cache order of their documents, then
\* ascending line number).
ResultsOrdered ==
    result.op = "search" =>
        \A i, j \in 1..Len(result.results) :
            i < j => LET h == result.results[i]
                         g == result.results[j]
                     IN /\ h.score >= g.score
                        /\ h.score = g.score => DiscoveredBefore(h.id, g.id)

\* a search has returned two hits of equal score from different documents next
\* to each other, and a hit ahead of one that was discovered before it
TiesAndReordering ==
    /\ result.op = "search"
    /\ \E i \in 1..(Len(result.results) - 1) :
          /\ result.results[i].score = result.results[i + 1].score
          /\ result.results[i].id[1] # result.results[i + 1].id[1]
    /\ \E i, j \in 1..Len(result.results) :
          i < j /\ DiscoveredBefore(result.results[j].id, result.results[i].id)

\* the score of the hit named h
ScoreOf(h, q) == calculate_score(to_lowercase(DocLines(h[1])[h[2] + 1]), to_lowercase(q))

\* g comes before h in the score-sorted sequence of the collected hits
RankedBefore(g, h, q) ==
    \/ ScoreOf(g, q) > ScoreOf(h, q)
    \/ ScoreOf(g, q) = ScoreOf(h, q) /\ DiscoveredBefore(g, h)

\* C4: results has at most limit elements and is the window [offset,
\* offset + limit) of the score-sorted collected hits, clipped to their number:
\* its k-th hit is the collected hit that exactly offset + k - 1 others come
\* before; limit = 0 or offset >= total gives no results while total still
\* counts the collected hits; query, limit and offset are echoed as given.
ResultsAreTheWindow ==
    result.op = "search" =>
        LET q == pre.args.query
            all == Matching(q)
            n == Cardinality(all)
        IN /\ Len(result.results) <= result.limit
           /\ Len(result.results) = Max(0, Min(result.limit, n - result.offset))
           /\ result.total = n
           /\ (result.limit = 0 \/ result.offset >= n) => result.results = <<>>
           /\ \A k \in 1..Len(result.results) :
                 LET h == result.results[k]
                 IN /\ h.id \in all
                    /\ Cardinality({g \in all : RankedBefore(g, h.id, q)})
                          = result.offset + k - 1
                    /\ h.score = ScoreOf(h.id, q)
                    /\ h.line_number = h.id[2]
                    /\ h.path = cached_files[h.id[1] + 1]
                    /\ h.content = DocLines(h.id[1])[h.id[2] + 1]
                    /\ h.title = <<h.path.name, h.line_number + 1>>
           /\ result.query = q
           /\ result.limit = pre.args.limit
           /\ result.offset = pre.args.offset

\* a search for "Ab" has returned a full window from inside the sorted hits:
\* something is skipped, something is cut off after it
WindowInside ==
    /\ result.op = "search"
    /\ result.query = <<"A", "b">>
    /\ result.offset >= 1
    /\ result.limit >= 1
    /\ Len(result.results) = result.limit
    /\ result.total > result.offset + result.limit

\* some part of the line is the query, case ignored
HasIgnoringCase(line, q) ==
    \E i \in 1..(Len(line) + 1) : \E j \in (i - 1)..Len(line) :
        to_lowercase(SubSeq(line, i, j)) = to_lowercase(q)

RECURSIVE CountLines(_, _, _)
\* the number of lines from line n (1-based) on that hold q, case ignored
CountLines(ls, n, q) ==
    IF n > Len(ls) THEN 0
    ELSE (IF HasIgnoringCase(ls[n], q) THEN 1 ELSE 0) + CountLines(ls, n + 1, q)

RECURSIVE CountDocs(_, _)
\* the same, summed over the cached documents from number i (0-based) on
CountDocs(i, q) ==
    IF i >= Len(cached_files) THEN 0
    ELSE CountLines(DocLines(i), 1, q) + CountDocs(i + 1, q)

Occurrences(t, q) == {i \in 1..(Len(t) + 1) : OccursAt(t, q, i)}

\* the occurrences starting at the positions of S do not overlap
Apart(S, n) == \A i, j \in S : i # j => (i + n <= j \/ j + n <= i)

\* the largest number of occurrences of q in t no two of which overlap
NonOverlapping(t, q) ==
    LET sets == {S \in SUBSET Occurrences(t, q) : Apart(S, Len(q))}
    IN CHOOSE n \in 0..(Len(t) + 1) :
          /\ \E S \in sets : Cardinality(S) = n
          /\ \A S \in sets : Cardinality(S) <= n

\* q (not empty) occurs in t with a word boundary on both sides: the character
\* before it, if any, is a word character exactly when q's first is not, and
\* likewise after it
WholeWord(t, q) ==
    \E i \in Occurrences(t, q) :
        LET e == i + Len(q)
        IN /\ IsWordChar(q[1]) # (i > 1 /\ IsWordChar(t[i - 1]))
           /\ IsWordChar(q[Len(q)]) # (e <= Len(t) /\ IsWordChar(t[e]))

====
